---- MODULE Spec2Model ----
(***************************************************************************)
(* The Transit protocol engine of moleculer-go (src/transit/transit.go):   *)
(* the pending-request table, the Connect sequence and the REQ / RES /     *)
(* $node.disconnected handlers, as concurrent handler invocations over a   *)
(* publish/subscribe transport.                                            *)
(* With it, the payload view of the JSON serializer and the lifecycle of    *)
(* the service broker (src/unnamed/part_000).                              *)
(***************************************************************************)
EXTENDS Integers, Sequences, FiniteSets, Bags, TLC

\* ------------------------------------------------------------------ bounds
MaxCalls == 2        \* Request() invocations in one run
MaxConnects == 2     \* Connect() invocations in one run
MaxDisconnects == 1  \* $node.disconnected events in one run
MaxInject == 1       \* RES messages published by the unmodelled remote node

\* ------------------------------------------------------------------ domains
Node == {"A", "B"}            \* nodes whose engine is modelled
Callers == {"A"}              \* nodes that issue calls and watch their peers
Remote == "C"                 \* a remote node known by name only
NodeID == Node \cup {Remote}
Broadcast == ""
CallID == {"c1", "B"}         \* context IDs; one coincides with a node ID
Value == {"v1"}               \* results of the local actions
RemoteValue == "v2"           \* data of a RES the remote node publishes
Unencodable == "fn"           \* a value the serializer cannot represent
Meta == {"m1"}
Params == {"p1", Unencodable}
Commands == {"RES", "REQ", "HEARTBEAT", "DISCONNECT", "INFO", "EVENT",
             "DISCOVER", "PING", "PONG"}

VARIABLES
  isConnected,      \* [Node -> BOOLEAN]   transit.self.isConnected
  transport,        \* [Node -> Nat]       transit.self.transport, 0 = nil
  transports,       \* [Node -> Seq]       transport instances CreateTransport made
  pendingRequests,  \* [Node -> [CallID -> entry]]  *transit.pendingRequests
  calls,            \* [channel -> call]   Request() invocations, one result channel each
  connects,         \* [Node -> set]       Connect() invocations and their goroutine
  net,              \* bag of message copies the transport has not handed over yet
  threads,          \* bag of handler invocations and the goroutines they start
  panicked,         \* [Node -> reason]    "none" while the process lives
  nconn,            \* Connect() invocations so far
  ndisc,            \* $node.disconnected events raised so far
  ninject,          \* remote RES publications so far
  payload,          \* a JSONPayload given to Get
  path,             \* the path given to Get, one key per element
  view,             \* << >>, or the one JSONPayload Get returned
  started,          \* BOOLEAN            broker.started
  services,         \* Seq of services    broker.services
  known,            \* set of names       the services the registry knows
  log,              \* Seq                calls into the middlewares, services and registry
  ops,              \* Seq                invocations of the broker's operations
  clock             \* time.Now(), in seconds

vars == <<isConnected, transport, transports, pendingRequests, calls,
          connects, net, threads, panicked, nconn, ndisc, ninject,
          payload, path, view, started, services, known, log, ops, clock>>

\* The variables of the payload view, which the engine's actions leave alone.
jsonVars == <<payload, path, view>>

\* The variables of the service broker, which the engine's actions and the
\* payload view leave alone.
brokerVars == <<started, services, known, log, ops, clock>>

\* ------------------------------------------------------------------ helpers
Add(bag, x) == bag (+) SetToBag({x})

Remove(bag, x) == bag (-) SetToBag({x})

Replace(bag, x, y) == Add(Remove(bag, x), y)

NoChan == << >>    \* a nil *chan

\* The zero value of pendingRequest: context nil, resultChan nil.
NoEntry == [target |-> "", chan |-> NoChan]

EmptyTable == [id \in CallID |-> NoEntry]

\* map[key] of a Go map: the zero value when the key is absent.
Lookup(table, key) == IF key \in DOMAIN table THEN table[key] ELSE NoEntry

\* delete(map, key)
Delete(table, key) ==
  [k \in DOMAIN table |-> IF k = key THEN NoEntry ELSE table[k]]

\* The channels a node can subscribe to: its own and the broadcast one.
SubKeys(nodeID) == Commands \X {nodeID, Broadcast}

NoSubs(nodeID) == [k \in SubKeys(nodeID) |-> 0]

\* A subscribe() whose broadcast DISCOVER subscription names the node's own
\* channel a second time.
SubscribeListOwnDiscoverTwice(nodeID) ==
  << <<"RES", nodeID>>, <<"REQ", nodeID>>,
     <<"HEARTBEAT", Broadcast>>, <<"DISCONNECT", Broadcast>>,
     <<"INFO", Broadcast>>, <<"INFO", nodeID>>,
     <<"EVENT", nodeID>>,
     <<"DISCOVER", nodeID>>, <<"DISCOVER", nodeID>>,
     <<"PING", nodeID>>, <<"PONG", nodeID>> >>

\* The subscriptions subscribe() registers, in the order of the code.
SubscribeList(nodeID) ==
  << <<"RES", nodeID>>, <<"REQ", nodeID>>,
     <<"HEARTBEAT", Broadcast>>, <<"DISCONNECT", Broadcast>>,
     <<"INFO", Broadcast>>, <<"INFO", nodeID>>,
     <<"EVENT", nodeID>>,
     <<"DISCOVER", nodeID>>, <<"DISCOVER", Broadcast>>,
     <<"PING", nodeID>>, <<"PONG", nodeID>> >>

Occurrences(list, k) == Cardinality({i \in DOMAIN list : list[i] = k})

\* subscribe(): one Subscribe call per element of the list, on one transport.
subscribe(subs, nodeID) ==
  [k \in DOMAIN subs |-> subs[k] + Occurrences(SubscribeList(nodeID), k)]

Sum(f, S) ==
  LET RECURSIVE Acc(_)
      Acc(T) == IF T = {} THEN 0
                ELSE LET x == CHOOSE y \in T : TRUE IN f[x] + Acc(T \ {x})
  IN Acc(S)

\* Subscriptions of node r on channel (cmd, target) over its connected transports.
LiveSubs(r, cmd, target) ==
  Sum([i \in DOMAIN transports[r] |->
         IF transports[r][i].status = "up" /\ <<cmd, target>> \in SubKeys(r)
         THEN transports[r][i].subs[<<cmd, target>>] ELSE 0],
      DOMAIN transports[r])

\* The sender filter given to the transporter: a node drops its own messages.
AcceptMessage(localNodeID, msg) == msg.sender # localNodeID

\* Transport.Publish: one copy per current subscription of the channel.
Copies(msg) ==
  LET count(r) == IF AcceptMessage(r, msg) /\ panicked[r] = "none"
                  THEN LiveSubs(r, msg.cmd, msg.target) ELSE 0
      to == {r \in Node : count(r) > 0}
  IN [x \in {[to |-> r, msg |-> msg] : r \in to} |-> count(x.to)]

Message(cmd, target, sender, id, data, meta, params) ==
  [cmd |-> cmd, target |-> target, sender |-> sender, id |-> id,
   success |-> (cmd = "RES"), data |-> data, meta |-> meta,
   params |-> params]

NoMessage == Message("", "", "", "", "", "", "")

Alive(n) == panicked[n] = "none"

\* An unrecovered panic ends the process of node n.
Panic(n, reason) == panicked' = [panicked EXCEPT ![n] = reason]

DataValue(v) == [kind |-> "data", v |-> v]

\* fmt.Errorf("Node %s disconnected. Request being canceled.", nodeID)
ErrorValue(nodeID) == [kind |-> "error", v |-> nodeID]

\* ------------------------------------------------------------------ Init
EngineInit ==
  /\ isConnected = [n \in Node |-> FALSE]
  /\ transport = [n \in Node |-> 0]
  /\ transports = [n \in Node |-> << >>]
  /\ pendingRequests = [n \in Node |-> EmptyTable]
  /\ calls = << >>
  /\ connects = [n \in Node |-> {}]
  /\ net = EmptyBag
  /\ threads = EmptyBag
  /\ panicked = [n \in Node |-> "none"]
  /\ nconn = 0
  /\ ndisc = 0
  /\ ninject = 0

\* A gjson.Result; the zero value is the result of a lookup that found nothing.
Result(type, raw, str, num, members) ==
  [type |-> type, raw |-> raw, str |-> str, num |-> num, members |-> members]

Missing == Result("Null", "", "", 0, << >>)

\* JSONPayload{result, logger}
JSONPayload(result) == [result |-> result]

\* FromConfig: a broker that is not started and has no service.
BrokerInit ==
  /\ started = FALSE
  /\ services = << >>
  /\ known = {}
  /\ log = << >>
  /\ ops = << >>
  /\ clock = 0

Init ==
  /\ EngineInit
  /\ payload = JSONPayload(Missing)
  /\ path = << >>
  /\ view = << >>
  /\ BrokerInit

\* ------------------------------------------------------------------ Connect
\* transit.isConnected as Connect() reads it.  Connect has a value receiver and
\* CreateTransit returns a copy of transitImpl made while the field was false;
\* every assignment goes through transit.self, so the copy never changes.
ReceiverIsConnected(n) == FALSE

Connecting(transportIx, pc, sent) ==
  [transport |-> transportIx, pc |-> pc, sent |-> sent]

\* Connect(), up to the start of its goroutine.  On the already-connected
\* branch the send on the unbuffered endChan has no receiver yet: the call
\* blocks there and never returns.
Connect(n) ==
  /\ Alive(n)
  /\ nconn < MaxConnects
  /\ nconn' = nconn + 1
  /\ IF ReceiverIsConnected(n)
     THEN /\ connects' = [connects EXCEPT
                ![n] = @ \cup {Connecting(0, "blocked", "none")}]
          /\ UNCHANGED <<transport, transports>>
     ELSE /\ transports' = [transports EXCEPT
                ![n] = Append(@, [status |-> "connecting", subs |-> NoSubs(n)])]
          /\ transport' = [transport EXCEPT ![n] = Len(transports[n]) + 1]
          /\ connects' = [connects EXCEPT ![n] =
                @ \cup {Connecting(Len(transports[n]) + 1, "cn_wait", "none")}]
  /\ UNCHANGED <<isConnected, pendingRequests, calls, net, threads, panicked,
                 ndisc, ninject>>
  /\ UNCHANGED jsonVars
  /\ UNCHANGED brokerVars

\* transit.self.isConnected = <-(*transport).Connect()
ConnectOutcome(n, k, ok) ==
  /\ k.pc = "cn_wait"
  /\ Alive(n)
  /\ transports' = [transports EXCEPT ![n][k.transport].status =
                       IF ok THEN "up" ELSE "failed"]
  /\ isConnected' = [isConnected EXCEPT ![n] = ok]
  /\ connects' = [connects EXCEPT
        ![n] = (@ \ {k}) \cup {[k EXCEPT !.pc = "cn_if"]}]
  /\ UNCHANGED <<transport, pendingRequests, calls, net, threads, panicked,
                 nconn, ndisc, ninject>>
  /\ UNCHANGED jsonVars
  /\ UNCHANGED brokerVars

\* if transit.self.isConnected { transit.self.subscribe() }
\* subscribe() registers on transit.transport, the transport set last.
ConnectSubscribe(n, k) ==
  /\ k.pc = "cn_if"
  /\ Alive(n)
  /\ IF isConnected[n]
     THEN transports' = [transports EXCEPT
                           ![n][transport[n]].subs = subscribe(@, n)]
     ELSE UNCHANGED transports
  /\ connects' = [connects EXCEPT
        ![n] = (@ \ {k}) \cup {[k EXCEPT !.pc = "cn_send"]}]
  /\ UNCHANGED <<isConnected, transport, pendingRequests, calls, net, threads,
                 panicked, nconn, ndisc, ninject>>
  /\ UNCHANGED jsonVars
  /\ UNCHANGED brokerVars

\* endChan <- transit.self.isConnected
ConnectSignal(n, k) ==
  /\ k.pc = "cn_send"
  /\ Alive(n)
  /\ connects' = [connects EXCEPT ![n] = (@ \ {k}) \cup
        {[k EXCEPT !.pc = "done",
                   !.sent = IF isConnected[n] THEN "true" ELSE "false"]}]
  /\ UNCHANGED <<isConnected, transport, transports, pendingRequests, calls,
                 net, threads, panicked, nconn, ndisc, ninject>>
  /\ UNCHANGED jsonVars
  /\ UNCHANGED brokerVars

\* ------------------------------------------------------------------ Request
\* MapToMessage: fails on a value the codec cannot represent.
Encodable(v) == v # Unencodable

\* (*transit.pendingRequests)[(*context).GetID()] = pendingRequest{context, &resultChan}
Register(table, id, target, chan) ==
  [table EXCEPT ![id] = [target |-> target, chan |-> chan]]

\* resultChan := make(chan interface{}): a channel no earlier call owns.
NewChan(n, id) ==
  <<n, id, Cardinality({ch \in DOMAIN calls : ch[1] = n /\ ch[2] = id}) + 1>>

Call(target, params, meta, pc) ==
  [target |-> target, params |-> params, meta |-> meta, pc |-> pc,
   waiting |-> EmptyBag, got |-> << >>]

\* A requestImpl that registers the pending entry before it serializes the
\* payload: the entry is in the table when the serialization fails.
RequestRegistersFirst(n, id, target, params, meta) ==
  /\ Alive(n)
  /\ Cardinality(DOMAIN calls) < MaxCalls
  /\ LET ch == NewChan(n, id) IN
     /\ pendingRequests' = [pendingRequests EXCEPT
            ![n] = Register(@, id, target, ch)]
     /\ IF ~Encodable(params)
        THEN /\ calls' = calls @@ (ch :> Call(target, params, meta, "panicked"))
             /\ \/ Panic(n, "serialize")
                \/ UNCHANGED panicked
        ELSE /\ calls' = calls @@ (ch :> Call(target, params, meta, "publish"))
             /\ UNCHANGED panicked
  /\ UNCHANGED <<isConnected, transport, transports, connects, net, threads,
                 nconn, ndisc, ninject>>
  /\ UNCHANGED jsonVars
  /\ UNCHANGED brokerVars

\* A requestImpl that goes on to publish the REQ without having registered
\* the pending entry.
RequestWithoutEntry(n, id, target, params, meta) ==
  /\ Alive(n)
  /\ Cardinality(DOMAIN calls) < MaxCalls
  /\ LET ch == NewChan(n, id) IN
     IF ~Encodable(params)
     THEN /\ calls' = calls @@ (ch :> Call(target, params, meta, "panicked"))
          /\ \/ Panic(n, "serialize")
             \/ UNCHANGED panicked
     ELSE /\ calls' = calls @@ (ch :> Call(target, params, meta, "publish"))
          /\ UNCHANGED panicked
  /\ UNCHANGED <<isConnected, transport, transports, pendingRequests,
                 connects, net, threads, nconn, ndisc, ninject>>
  /\ UNCHANGED jsonVars
  /\ UNCHANGED brokerVars

\* requestImpl up to the registration: make the channel, serialize the
\* payload (panic when that fails), register the pending entry.  The panic
\* unwinds into the caller, who may recover from it; if not, the process ends.
Request(n, id, target, params, meta) ==
  /\ Alive(n)
  /\ Cardinality(DOMAIN calls) < MaxCalls
  /\ LET ch == NewChan(n, id) IN
     IF ~Encodable(params)
     THEN /\ calls' = calls @@ (ch :> Call(target, params, meta, "panicked"))
          /\ \/ Panic(n, "serialize")
             \/ UNCHANGED panicked
          /\ UNCHANGED pendingRequests
     ELSE /\ calls' = calls @@ (ch :> Call(target, params, meta, "publish"))
          /\ pendingRequests' = [pendingRequests EXCEPT
                 ![n] = Register(@, id, target, ch)]
          /\ UNCHANGED panicked
  /\ UNCHANGED <<isConnected, transport, transports, connects, net, threads,
                 nconn, ndisc, ninject>>
  /\ UNCHANGED jsonVars
  /\ UNCHANGED brokerVars

\* (*transit.transport).Publish("REQ", targetNodeID, message); return resultChan
\* transit.transport is nil until the first Connect().
RequestPublish(ch) ==
  /\ calls[ch].pc = "publish"
  /\ Alive(ch[1])
  /\ LET msg == Message("REQ", calls[ch].target, ch[1], ch[2], "",
                        calls[ch].meta, calls[ch].params)
     IN IF transport[ch[1]] = 0
        THEN /\ Panic(ch[1], "nil_transport")
             /\ calls' = [calls EXCEPT ![ch].pc = "panicked"]
             /\ UNCHANGED net
        ELSE /\ net' = net (+) Copies(msg)
             /\ calls' = [calls EXCEPT ![ch].pc = "returned"]
             /\ UNCHANGED panicked
  /\ UNCHANGED <<isConnected, transport, transports, pendingRequests,
                 connects, threads, nconn, ndisc, ninject>>
  /\ UNCHANGED jsonVars
  /\ UNCHANGED brokerVars

\* ------------------------------------------------------------------ handlers
\* out, invoked, due and taken record what the invocation did and what it was
\* raised for; no action reads them.
Thread(n, kind, pc, key, entry, data, msg) ==
  [node |-> n, kind |-> kind, pc |-> pc, key |-> key, entry |-> entry,
   data |-> data, msg |-> msg, out |-> << >>, invoked |-> 0, due |-> {},
   taken |-> FALSE]

Running == BagToSet(threads)

\* A copy of a cmd message is waiting for a handler of node r.
Arrived(x, cmd) ==
  /\ Alive(x.to)
  /\ x.msg.cmd = cmd

\* reponseHandler: id := message.Get("id"); request := (*transit.pendingRequests)[id]
ResLookup(x) ==
  /\ Arrived(x, "RES")
  /\ net' = Remove(net, x)
  /\ threads' = Add(threads,
        Thread(x.to, "res", "res_delete", x.msg.id,
               Lookup(pendingRequests[x.to], x.msg.id), x.msg.data, x.msg))
  /\ UNCHANGED <<isConnected, transport, transports, pendingRequests, calls,
                 connects, panicked, nconn, ndisc, ninject>>
  /\ UNCHANGED jsonVars
  /\ UNCHANGED brokerVars

\* delete((*transit.pendingRequests), id); result := ...; go func() {...}()
ResDelete(t) ==
  /\ t.pc = "res_delete"
  /\ Alive(t.node)
  /\ pendingRequests' = [pendingRequests EXCEPT ![t.node] = Delete(@, t.key)]
  /\ threads' = Replace(threads, t, [t EXCEPT !.pc = "go_send"])
  /\ UNCHANGED <<isConnected, transport, transports, calls, connects, net,
                 panicked, nconn, ndisc, ninject>>
  /\ UNCHANGED jsonVars
  /\ UNCHANGED brokerVars

\* A send on the unbuffered channel ch: the value waits for a receiver.
Offer(ch, val) == calls' = [calls EXCEPT ![ch].waiting = Add(@, val)]

\* The goroutine: (*request.resultChan) <- result.  request.resultChan is nil
\* when the lookup found no entry, and dereferencing it panics.
GoSend(t) ==
  /\ t.pc = "go_send"
  /\ Alive(t.node)
  /\ IF t.entry.chan = NoChan
     THEN /\ Panic(t.node, "res_nil_chan")
          /\ threads' = Replace(threads, t, [t EXCEPT !.pc = "panicked"])
          /\ UNCHANGED calls
     ELSE /\ Offer(t.entry.chan, DataValue(t.data))
          /\ threads' = Replace(threads, t, [t EXCEPT !.pc = "done"])
          /\ UNCHANGED panicked
  /\ UNCHANGED <<isConnected, transport, transports, pendingRequests,
                 connects, net, nconn, ndisc, ninject>>
  /\ UNCHANGED jsonVars
  /\ UNCHANGED brokerVars

\* The calls of node n that wait for an answer of nodeID.
PendingFor(n, nodeID) ==
  {pendingRequests[n][id].chan :
     id \in {i \in CallID : pendingRequests[n][i].target = nodeID}}

\* $node.disconnected raised on node n for nodeID:
\* pending := (*transit.pendingRequests)[nodeID]
DiscLookup(n, nodeID) ==
  /\ Alive(n)
  /\ ndisc < MaxDisconnects
  /\ ndisc' = ndisc + 1
  /\ threads' = Add(threads,
        [Thread(n, "disc", "disc_send", nodeID,
                Lookup(pendingRequests[n], nodeID), "", NoMessage)
           EXCEPT !.due = PendingFor(n, nodeID)])
  /\ UNCHANGED <<isConnected, transport, transports, pendingRequests, calls,
                 connects, net, panicked, nconn, ninject>>
  /\ UNCHANGED jsonVars
  /\ UNCHANGED brokerVars

\* (*pending.resultChan) <- fmt.Errorf(...): a nil dereference when no entry
\* was found, otherwise a send that blocks the handler until it is received.
DiscSend(t) ==
  /\ t.pc = "disc_send"
  /\ Alive(t.node)
  /\ IF t.entry.chan = NoChan
     THEN /\ Panic(t.node, "disc_nil_chan")
          /\ threads' = Replace(threads, t, [t EXCEPT !.pc = "panicked"])
          /\ UNCHANGED calls
     ELSE /\ Offer(t.entry.chan, ErrorValue(t.key))
          /\ threads' = Replace(threads, t, [t EXCEPT !.pc = "disc_wait"])
          /\ UNCHANGED panicked
  /\ UNCHANGED <<isConnected, transport, transports, pendingRequests,
                 connects, net, nconn, ndisc, ninject>>
  /\ UNCHANGED jsonVars
  /\ UNCHANGED brokerVars

\* delete((*transit.pendingRequests), nodeID), once the send has completed.
DiscDelete(t) ==
  /\ t.pc = "disc_delete"
  /\ Alive(t.node)
  /\ pendingRequests' = [pendingRequests EXCEPT ![t.node] = Delete(@, t.key)]
  /\ threads' = Replace(threads, t, [t EXCEPT !.pc = "done"])
  /\ UNCHANGED <<isConnected, transport, transports, calls, connects, net,
                 panicked, nconn, ndisc, ninject>>
  /\ UNCHANGED jsonVars
  /\ UNCHANGED brokerVars

\* The disconnect handlers blocked in a send of val on channel ch.
BlockedSenders(ch, val) ==
  {t \in Running : /\ t.pc = "disc_wait" /\ t.entry.chan = ch
                   /\ ErrorValue(t.key) = val}

\* The caller receives one value from the call's result channel: one waiting
\* send completes, and a handler blocked in that send goes on.
Receive(ch, val) ==
  /\ Alive(ch[1])
  /\ calls[ch].pc = "returned"
  /\ BagIn(val, calls[ch].waiting)
  /\ calls' = [calls EXCEPT ![ch].waiting = Remove(@, val),
                            ![ch].got = Append(@, val)]
  /\ IF BlockedSenders(ch, val) = {}
     THEN UNCHANGED threads
     ELSE \E t \in BlockedSenders(ch, val) :
            threads' = Replace(threads, t, [t EXCEPT !.pc = "disc_delete"])
  /\ UNCHANGED <<isConnected, transport, transports, pendingRequests,
                 connects, net, panicked, nconn, ndisc, ninject>>
  /\ UNCHANGED jsonVars
  /\ UNCHANGED brokerVars

\* requestHandler: build the context from the message and invoke the action.
ReqInvoke(x) ==
  /\ Arrived(x, "REQ")
  /\ net' = Remove(net, x)
  /\ threads' = Add(threads,
        [Thread(x.to, "req", "req_wait", x.msg.id, NoEntry, "", x.msg)
           EXCEPT !.invoked = 1])
  /\ UNCHANGED <<isConnected, transport, transports, pendingRequests, calls,
                 connects, panicked, nconn, ndisc, ninject>>
  /\ UNCHANGED jsonVars
  /\ UNCHANGED brokerVars

\* The context a REQ is decoded into answers to the node that sent it.
ContextTargetNodeID(msg) == msg.sender

\* A sendResponse that answers on the handling node's own channel instead of
\* the channel of the node the context came from.
sendResponseToSelf(t, response) ==
  Message("RES", t.node, t.node, t.msg.id, response, t.msg.meta, "")

\* sendResponse: the RES for the context of thread t.
sendResponse(t, response) ==
  Message("RES", ContextTargetNodeID(t.msg), t.node, t.msg.id, response,
          t.msg.meta, "")

\* result := <-context.InvokeAction(); transit.sendResponse(&context, result)
ReqRespond(t, result) ==
  /\ t.pc = "req_wait"
  /\ Alive(t.node)
  /\ IF ~Encodable(result)
     THEN /\ Panic(t.node, "serialize")
          /\ threads' = Replace(threads, t,
                [t EXCEPT !.pc = "panicked", !.data = result])
          /\ UNCHANGED net
     ELSE /\ net' = net (+) Copies(sendResponse(t, result))
          /\ threads' = Replace(threads, t,
                [t EXCEPT !.pc = "done", !.data = result,
                          !.out = Append(@, sendResponse(t, result)),
                          !.taken = Copies(sendResponse(t, result)) # EmptyBag])
          /\ UNCHANGED panicked
  /\ UNCHANGED <<isConnected, transport, transports, pendingRequests, calls,
                 connects, nconn, ndisc, ninject>>
  /\ UNCHANGED jsonVars
  /\ UNCHANGED brokerVars

\* The remote node publishes a RES for node r: a late, duplicate or unknown
\* one.  Without a subscriber the transport delivers it to nobody.
RemoteRES(r, id) ==
  /\ ninject < MaxInject
  /\ Copies(Message("RES", r, Remote, id, RemoteValue, "m1", "")) # EmptyBag
  /\ ninject' = ninject + 1
  /\ net' = net (+) Copies(Message("RES", r, Remote, id, RemoteValue, "m1", ""))
  /\ UNCHANGED <<isConnected, transport, transports, pendingRequests, calls,
                 connects, threads, panicked, nconn, ndisc>>
  /\ UNCHANGED jsonVars
  /\ UNCHANGED brokerVars

\* ------------------------------------------------------------------ Spec
Next ==
  \/ \E n \in Node : Connect(n)
  \/ \E n \in Node : \E k \in connects[n], ok \in BOOLEAN : ConnectOutcome(n, k, ok)
  \/ \E n \in Node : \E k \in connects[n] : ConnectSubscribe(n, k)
  \/ \E n \in Node : \E k \in connects[n] : ConnectSignal(n, k)
  \/ \E n \in Callers : \E id \in CallID, target \in NodeID \ {n},
        params \in Params, meta \in Meta :
          \* the caller resolved the target over a connected transit, and
          \* a context ID is unique among the calls in flight
          /\ isConnected[n]
          /\ pendingRequests[n][id] = NoEntry
          /\ Request(n, id, target, params, meta)
  \/ \E ch \in DOMAIN calls : RequestPublish(ch)
  \/ \E ch \in DOMAIN calls : \E val \in BagToSet(calls[ch].waiting) :
        Receive(ch, val)
  \/ \E x \in BagToSet(net) : ResLookup(x)
  \/ \E t \in Running : ResDelete(t)
  \/ \E t \in Running : GoSend(t)
  \/ \E n \in Callers : \E nodeID \in NodeID \ {n} :
        \* the registry learned of nodeID over a connected transit
        isConnected[n] /\ DiscLookup(n, nodeID)
  \/ \E t \in Running : DiscSend(t)
  \/ \E t \in Running : DiscDelete(t)
  \/ \E x \in BagToSet(net) : ReqInvoke(x)
  \/ \E t \in Running, result \in Value \cup {Unencodable} :
        ReqRespond(t, result)
  \/ \E r \in Callers, id \in CallID : RemoteRES(r, id)

Spec == Init /\ [][Next]_vars

\* ------------------------------------------------------------------ observers
\* The values sent on the result channel of call ch, received or not.
NumSends(ch) == BagCardinality(calls[ch].waiting) + Len(calls[ch].got)

Sent(ch, val) ==
  \/ BagIn(val, calls[ch].waiting)
  \/ \E j \in DOMAIN calls[ch].got : calls[ch].got[j] = val

\* The invocation is over: it returned or it panicked.
Over(t) == t.pc \in {"done", "panicked"}

\* Thread t takes a step.
Steps(t) == CopiesIn(t, threads') < CopiesIn(t, threads)

\* The pending entry of call ch is (still) in the table of its node.
InTable(ch) == \E id \in CallID : pendingRequests[ch[1]][id].chan = ch

\* A RES matching call ch has been handled, or a $node.disconnected for the
\* node the call waits for.
Resolved(ch) ==
  \E t \in Running :
    /\ t.node = ch[1]
    /\ \/ t.kind = "res" /\ t.entry.chan = ch /\ Over(t)
       \/ t.kind = "disc" /\ ch \in t.due /\ Over(t)

\* Every subscription of subscribe() is registered on a connected transport.
FullSubscriptions(n) ==
  \A i \in DOMAIN SubscribeList(n) :
    LiveSubs(n, SubscribeList(n)[i][1], SubscribeList(n)[i][2]) >= 1

\* ------------------------------------------------------------------ claims
\* C1: a call's result channel never gets a second value, and it has got
\* exactly one once a matching RES or a disconnect of the call's target node
\* has been handled.
C1_ExactlyOneValue ==
  \A ch \in DOMAIN calls :
    /\ NumSends(ch) <= 1
    /\ Resolved(ch) => NumSends(ch) = 1

\* C2: when a RES handler and a $node.disconnected handler meet on the same
\* pending entry, at most one of them finds it (the other sees it absent and
\* sends nothing), and once both are over the entry is out of the table.
C2_OneWinner ==
  \A t1, t2 \in Running :
    (/\ t1.kind = "res" /\ t2.kind = "disc"
     /\ t1.node = t2.node /\ t1.key = t2.key
     /\ t1.entry.chan # NoChan)
    => /\ t2.entry # t1.entry
       /\ NumSends(t1.entry.chan) <= 1
       /\ (Over(t1) /\ Over(t2)) => ~InTable(t1.entry.chan)

\* C3: when the handler of $node.disconnected for node N is over, every call
\* that was pending for N is out of the table and has got a value (the
\* error, unless a RES resolved it first); and no step of the handler changes
\* an entry whose target is another node.
C3_CancelsByTarget ==
  /\ [](\A t \in Running :
          (t.kind = "disc" /\ Over(t)) =>
             \A ch \in t.due : ~InTable(ch) /\ NumSends(ch) >= 1)
  /\ [][\A t \in Running :
          (t.kind = "disc" /\ Steps(t)) =>
             \A id \in CallID :
                pendingRequests[t.node][id].target # t.key
                => pendingRequests'[t.node][id] = pendingRequests[t.node][id]
       ]_vars

\* C4: no step of a RES handler that found no pending entry (nor of its
\* goroutine) panics, sends on a result channel or changes another entry.
C4_UnmatchedResNoOp ==
  [][\A t \in Running :
       (t.kind = "res" /\ t.entry = NoEntry /\ Steps(t)) =>
          /\ panicked' = panicked
          /\ calls' = calls
          /\ \A id \in CallID \ {t.key} :
               pendingRequests'[t.node][id] = pendingRequests[t.node][id]
    ]_vars

\* The node that call ch went to has published its answer v, and the
\* transport took it for the caller.
Answered(ch, v) ==
  \E t \in Running :
    /\ t.kind = "req" /\ t.pc = "done" /\ t.node = calls[ch].target
    /\ t.msg.sender = ch[1] /\ t.msg.id = ch[2] /\ t.data = v
    /\ t.taken

\* The result channel of call ch has yielded v and the entry is gone.
Yielded(ch, v) ==
  /\ \E j \in DOMAIN calls[ch].got : calls[ch].got[j] = DataValue(v)
  /\ ~InTable(ch)

\* C5: a call that the target node has answered with v yields v on the
\* caller's result channel: in no state has the caller's process ended with
\* the answer outstanding (but for the caller's own serialization panic).
C5_EndToEnd ==
  \A ch \in DOMAIN calls : \A v \in Value :
    (Answered(ch, v) /\ ~Yielded(ch, v)) =>
       panicked[ch[1]] \in {"none", "serialize"}

\* Between its lookup and its removal a handler is inside the table.
InsideTable(t) == t.pc \in {"res_delete", "disc_send", "disc_wait", "disc_delete"}

\* C6: at most one handler of a node is inside the pending-request table.
C6_MutualExclusion ==
  \A n \in Node :
    Sum([t \in Running |->
           IF t.node = n /\ InsideTable(t) THEN CopiesIn(t, threads) ELSE 0],
        Running) <= 1

\* C7: no handler waits for a receiver of the result channel before it removes
\* the entry and returns.
C7_NeverStalls == \A t \in Running : t.pc # "disc_wait"

C9_TrueAfterSubscribe ==
  [][\A n \in Node : \A k \in connects[n] :
       (k.pc = "cn_send" /\ [k EXCEPT !.pc = "done", !.sent = "true"] \in connects'[n])
       => isConnected'[n] /\ FullSubscriptions(n)'
    ]_vars

\* C10: a Connect() on a connected engine sends true at once and creates no
\* transport, starts no transport connect and registers no subscription.
C10_ConnectedIsNoOp ==
  [][\A n \in Node :
       (isConnected[n] /\ nconn' = nconn + 1 /\ connects'[n] # connects[n])
       => /\ transports'[n] = transports[n]
          /\ transport'[n] = transport[n]
          /\ \E k \in connects'[n] \ connects[n] : k.sent = "true"
    ]_vars

\* C11: a Connect() whose transport reported a failed connect has sent false on
\* its completion channel, and no subscription is registered on that transport.
C11_FailedConnectIsFalse ==
  \A n \in Node : \A k \in connects[n] :
    (k.pc = "done" /\ transports[n][k.transport].status = "failed") =>
       /\ k.sent = "false"
       /\ \A key \in SubKeys(n) : transports[n][k.transport].subs[key] = 0

\* ------------------------------------------------------------------ gossip
\* Heartbeat, discovery, node info and ping: commands without correlation.
MaxGossip == 2   \* SendHeartbeat, DiscoverNode, SendPing, $broker.started in one run
MaxTime == 2     \* time.Now().Unix() reads a value of 0 .. MaxTime

Time == 0 .. MaxTime

\* The payload of a command without correlation: the sender and, for PING and
\* PONG, the time fields.
GossipMessage(cmd, target, sender, time, arrived) ==
  [cmd |-> cmd, target |-> target, sender |-> sender, time |-> time,
   arrived |-> arrived]

GossipKinds == {"SendHeartbeat", "onBrokerStarted", "DiscoverNode", "SendPing"}

\* The invocations of the engine's own gossip operations so far.
NumGossip ==
  Sum([t \in Running |-> IF t.kind \in GossipKinds
                         THEN CopiesIn(t, threads) ELSE 0], Running)

\* One invocation that ran to its end (pc) and published or emitted out.
Invocation(n, kind, pc, msg, out) ==
  [Thread(n, kind, pc, "", NoEntry, "", msg)
     EXCEPT !.out = out,
            !.taken = \E i \in DOMAIN out : Copies(out[i]) # EmptyBag]

\* (*transit.transport).Publish(...) by an operation without a handler to
\* return to: a nil transport (no Connect() yet) is a nil dereference.
PublishFrom(n, kind, msg) ==
  IF transport[n] = 0
  THEN /\ Panic(n, "nil_transport")
       /\ threads' = Add(threads, Invocation(n, kind, "panicked", NoMessage, << >>))
       /\ UNCHANGED net
  ELSE /\ net' = net (+) Copies(msg)
       /\ threads' = Add(threads, Invocation(n, kind, "done", NoMessage, <<msg>>))
       /\ UNCHANGED panicked

\* The node ID in the exported self-description of the local node.
ExportedID(n) == n

\* SendHeartbeat / sendHeartbeatImpl
SendHeartbeat(n) ==
  /\ Alive(n)
  /\ NumGossip < MaxGossip
  /\ PublishFrom(n, "SendHeartbeat",
                 GossipMessage("HEARTBEAT", Broadcast, ExportedID(n), 0, 0))
  /\ UNCHANGED <<isConnected, transport, transports, pendingRequests, calls,
                 connects, nconn, ndisc, ninject>>
  /\ UNCHANGED jsonVars
  /\ UNCHANGED brokerVars

\* DiscoverNode / discoverNodeImpl
DiscoverNode(n, nodeID) ==
  /\ Alive(n)
  /\ NumGossip < MaxGossip
  /\ PublishFrom(n, "DiscoverNode", GossipMessage("DISCOVER", nodeID, n, 0, 0))
  /\ UNCHANGED <<isConnected, transport, transports, pendingRequests, calls,
                 connects, nconn, ndisc, ninject>>
  /\ UNCHANGED jsonVars
  /\ UNCHANGED brokerVars

\* A broadcastNodeInfo that ignores its target and publishes to every node.
broadcastNodeInfoToAll(n, targetNodeID) ==
  GossipMessage("INFO", Broadcast, ExportedID(n), 0, 0)

\* broadcastNodeInfo: the INFO message it publishes.
broadcastNodeInfo(n, targetNodeID) ==
  GossipMessage("INFO", targetNodeID, ExportedID(n), 0, 0)

\* onBrokerStarted: if transit.isConnected { transit.broadcastNodeInfo("") }
onBrokerStarted(n) ==
  /\ Alive(n)
  /\ NumGossip < MaxGossip
  /\ IF isConnected[n]
     THEN PublishFrom(n, "onBrokerStarted", broadcastNodeInfo(n, Broadcast))
     ELSE /\ threads' = Add(threads,
                Invocation(n, "onBrokerStarted", "done", NoMessage, << >>))
          /\ UNCHANGED <<net, panicked>>
  /\ UNCHANGED <<isConnected, transport, transports, pendingRequests, calls,
                 connects, nconn, ndisc, ninject>>
  /\ UNCHANGED jsonVars
  /\ UNCHANGED brokerVars

\* SendPing: the PING goes to the channel named by the local node's own ID.
SendPing(n, now) ==
  /\ Alive(n)
  /\ NumGossip < MaxGossip
  /\ PublishFrom(n, "SendPing", GossipMessage("PING", n, n, now, 0))
  /\ UNCHANGED <<isConnected, transport, transports, pendingRequests, calls,
                 connects, nconn, ndisc, ninject>>
  /\ UNCHANGED jsonVars
  /\ UNCHANGED brokerVars

\* A handler that answers the message copy x by publishing msg.
Answer(x, kind, msg) ==
  /\ net' = Remove(net, x) (+) Copies(msg)
  /\ threads' = Add(threads, Invocation(x.to, kind, "done", x.msg, <<msg>>))
  /\ UNCHANGED <<isConnected, transport, transports, pendingRequests, calls,
                 connects, panicked, nconn, ndisc, ninject>>
  /\ UNCHANGED jsonVars
  /\ UNCHANGED brokerVars

\* discoverHandler: sender := message.Get("sender"); broadcastNodeInfo(sender)
discoverHandler(x) ==
  /\ Arrived(x, "DISCOVER")
  /\ Answer(x, "discoverHandler", broadcastNodeInfo(x.to, x.msg.sender))

\* The PONG of pingHandler: its sender field is the sender of the PING.
Pong(msg, now) == GossipMessage("PONG", msg.sender, msg.sender, msg.time, now)

\* pingHandler
pingHandler(x, now) ==
  /\ Arrived(x, "PING")
  /\ Answer(x, "pingHandler", Pong(x.msg, now))

\* math.Round(half / 2): the nearest integer, halves away from zero.
MathRound(half) ==
  IF half >= 0 THEN (half + 1) \div 2 ELSE 0 - ((1 - half) \div 2)

\* The $node.pong event of pongHandler for a PONG handled at clock now:
\* elapsed := now - time; timeDiff := math.Round(now - arrived - elapsed/2)
PongEvent(msg, now) ==
  [event |-> "$node.pong", nodeID |-> msg.sender,
   elapsedTime |-> now - msg.time,
   timeDiff |-> MathRound(2 * (now - msg.arrived) - (now - msg.time))]

\* pongHandler
pongHandler(x, now) ==
  /\ Arrived(x, "PONG")
  /\ net' = Remove(net, x)
  /\ threads' = Add(threads,
        [Thread(x.to, "pongHandler", "done", "", NoEntry, "", x.msg)
           EXCEPT !.out = <<PongEvent(x.msg, now)>>])
  /\ UNCHANGED <<isConnected, transport, transports, pendingRequests, calls,
                 connects, panicked, nconn, ndisc, ninject>>
  /\ UNCHANGED jsonVars
  /\ UNCHANGED brokerVars

\* The handler subscribe() gives each subscription of SubscribeList, in the
\* same order: the handler and the command a registry delegate is made for.
SubscribeHandlers ==
  << <<"reponseHandler", "">>, <<"requestHandler", "">>,
     <<"registryDelegateHandler", "HEARTBEAT">>,
     <<"registryDelegateHandler", "DISCONNECT">>,
     <<"registryDelegateHandler", "INFO">>,
     <<"registryDelegateHandler", "INFO">>,
     <<"eventHandler", "">>,
     <<"discoverHandler", "">>, <<"discoverHandler", "">>,
     <<"pingHandler", "">>, <<"pongHandler", "">> >>

\* The handlers subscribed to channel (cmd, target) of node nodeID.
HandlersOf(nodeID, cmd, target) ==
  {SubscribeHandlers[i] :
     i \in {j \in DOMAIN SubscribeList(nodeID) :
              SubscribeList(nodeID)[j] = <<cmd, target>>}}

\* registryDelegateHandler(command): transit.registryMessageHandler(command, &message)
registryDelegateHandler(x) ==
  /\ Alive(x.to)
  /\ \E h \in HandlersOf(x.to, x.msg.cmd, x.msg.target) :
       /\ h[1] = "registryDelegateHandler"
       /\ threads' = Add(threads,
             [Invocation(x.to, "registryDelegateHandler", "done", x.msg, << >>)
                EXCEPT !.key = h[2]])
  /\ net' = Remove(net, x)
  /\ UNCHANGED <<isConnected, transport, transports, pendingRequests, calls,
                 connects, panicked, nconn, ndisc, ninject>>
  /\ UNCHANGED jsonVars
  /\ UNCHANGED brokerVars

\* The remote node publishes a message without correlation.
RemoteGossip(msg) ==
  /\ ninject < MaxInject
  /\ Copies(msg) # EmptyBag
  /\ ninject' = ninject + 1
  /\ net' = net (+) Copies(msg)
  /\ UNCHANGED <<isConnected, transport, transports, pendingRequests, calls,
                 connects, threads, panicked, nconn, ndisc>>
  /\ UNCHANGED jsonVars
  /\ UNCHANGED brokerVars

GossipNext ==
  \/ \E n \in Node : Connect(n)
  \/ \E n \in Node : \E k \in connects[n], ok \in BOOLEAN : ConnectOutcome(n, k, ok)
  \/ \E n \in Node : \E k \in connects[n] : ConnectSubscribe(n, k)
  \/ \E n \in Node : \E k \in connects[n] : ConnectSignal(n, k)
  \/ \E n \in Callers : SendHeartbeat(n)
  \/ \E n \in Callers : \E nodeID \in {Broadcast, "B"} : DiscoverNode(n, nodeID)
  \/ \E n \in Callers : onBrokerStarted(n)
  \/ \E n \in Callers : \E now \in Time : SendPing(n, now)
  \/ \E x \in BagToSet(net) : discoverHandler(x)
  \/ \E x \in BagToSet(net) : \E now \in Time : pingHandler(x, now)
  \/ \E x \in BagToSet(net) : \E now \in Time : pongHandler(x, now)
  \/ \E x \in BagToSet(net) : registryDelegateHandler(x)
  \/ \E target \in Callers \cup {Broadcast} :
        RemoteGossip(GossipMessage("DISCOVER", target, Remote, 0, 0))
  \/ \E r \in Callers, time \in Time :
        RemoteGossip(GossipMessage("PING", r, Remote, time, 0))
  \/ \E r \in Callers, time \in Time, arrived \in Time :
        RemoteGossip(GossipMessage("PONG", r, Remote, time, arrived))

GossipSpec == Init /\ [][GossipNext]_vars

\* ------------------------------------------------------------------ claims
\* Invocation t began in this step.
Begins(t) == CopiesIn(t, threads') > CopiesIn(t, threads)

\* Invocation t published an INFO message to the broadcast channel.
BroadcastInfo(t) ==
  \E i \in DOMAIN t.out :
    /\ t.out[i].cmd = "INFO"
    /\ t.out[i].target = Broadcast
    /\ t.out[i].sender = t.node

\* C12: every handling of a DISCOVER message with sender X, received on the
\* node's own channel or on the broadcast channel, publishes exactly one
\* message: an INFO targeted at X whose sender is the handling node.
C12_DiscoverAnswered ==
  \A t \in Running :
    t.kind = "discoverHandler" =>
      /\ t.pc = "done"
      /\ Len(t.out) = 1
      /\ t.out[1].cmd = "INFO"
      /\ t.out[1].target = t.msg.sender
      /\ t.out[1].sender = t.node

C12_Witness ==
  /\ \E t \in Running :
       /\ t.kind = "discoverHandler" /\ t.node = "B"
       /\ t.msg.sender = "A" /\ t.msg.target = Broadcast
       /\ \E x \in BagToSet(net) : x.to = "A" /\ x.msg = t.out[1]
  /\ \E t \in Running :
       /\ t.kind = "discoverHandler" /\ t.node = "A"
       /\ t.msg.sender = Remote /\ t.msg.target = "A"

\* C13: when a Connect() has signalled true, its goroutine being over, the
\* node has published an INFO message to the broadcast channel.
C13_ConnectBroadcastsInfo ==
  \A n \in Node : \A k \in connects[n] :
    (k.pc = "done" /\ k.sent = "true") =>
       \E t \in Running : t.node = n /\ BroadcastInfo(t)

\* C14: a SendHeartbeat() or a $broker.started handler that runs while
\* isConnected is false returns without a panic and publishes nothing.
C14_GatedByConnection ==
  [][\A t \in BagToSet(threads') :
       (/\ t.kind \in {"SendHeartbeat", "onBrokerStarted"}
        /\ Begins(t)
        /\ ~isConnected[t.node])
       => t.pc = "done" /\ t.out = << >>
    ]_vars

\* C15: the PING of SendPing() goes to the own channel of a node other than
\* the sender, and a PING handler publishes exactly one message: a PONG to
\* the channel of the PING's sender, with the PING's time and sender ID and
\* arrived = a reading of the handler's clock.
C15_PingDirectedPongEchoed ==
  \A t \in Running :
    /\ (t.kind = "SendPing" /\ t.pc = "done") =>
          /\ t.out[1].cmd = "PING"
          /\ t.out[1].target \in NodeID \ {t.node}
    /\ t.kind = "pingHandler" =>
          /\ Len(t.out) = 1
          /\ t.out[1].cmd = "PONG"
          /\ t.out[1].target = t.msg.sender
          /\ t.out[1].sender = t.msg.sender
          /\ t.out[1].time = t.msg.time
          /\ t.out[1].arrived \in Time

\* C16: the PING of a SendPing() by a connected node, with another node
\* connected and subscribed, is taken by the transport for a node that can
\* answer it; no $node.pong can follow a PING no node receives.
C16_PingReachesANode ==
  [][\A t \in BagToSet(threads') :
       (/\ t.kind = "SendPing" /\ Begins(t)
        /\ isConnected[t.node] /\ FullSubscriptions(t.node)
        /\ \E r \in Node \ {t.node} : isConnected[r] /\ FullSubscriptions(r))
       => t.taken
    ]_vars

\* round(half / 2) with halves rounded up.
RoundHalfUp(half) == (half + 1) \div 2

\* C17: the $node.pong emitted for a PONG with time = T0 and arrived = T1 is,
\* for a reading T2 of the local clock, elapsedTime = T2 - T0 and
\* timeDiff = round(T2 - T1 - (T2 - T0)/2), halves rounded up.
C17_SkewFormula ==
  \A t \in Running :
    t.kind = "pongHandler" =>
      \E T2 \in Time :
        /\ t.out[1].elapsedTime = T2 - t.msg.time
        /\ t.out[1].timeDiff =
             RoundHalfUp(2 * (T2 - t.msg.arrived) - (T2 - t.msg.time))

\* Node n has called Connect() once, and that call has signalled true.
OneSuccessfulConnect(n) ==
  \E k \in connects[n] :
    connects[n] = {k} /\ k.pc = "done" /\ k.sent = "true"

\* The channels a connected node is subscribed to.
ExpectedSubscriptions(n) ==
  ({"RES", "REQ", "EVENT", "DISCOVER", "PING", "PONG", "INFO"} \X {n})
    \cup ({"HEARTBEAT", "DISCOVER", "DISCONNECT", "INFO"} \X {Broadcast})

RegistryCommands == {"HEARTBEAT", "DISCONNECT", "INFO"}

\* C18: after one successful Connect() the node holds exactly one subscription
\* for each of RES, REQ, EVENT, DISCOVER, PING, PONG, INFO on its own channel
\* and HEARTBEAT, DISCOVER, DISCONNECT, INFO on the broadcast channel and none
\* else; HEARTBEAT, DISCONNECT and INFO go to the registry message handler
\* under their own command name.
C18_ExactSubscriptions ==
  \A n \in Node :
    OneSuccessfulConnect(n) =>
      /\ \A key \in SubKeys(n) :
           LiveSubs(n, key[1], key[2]) =
              IF key \in ExpectedSubscriptions(n) THEN 1 ELSE 0
      /\ \A key \in SubKeys(n) :
           key[1] \in RegistryCommands =>
             HandlersOf(n, key[1], key[2]) \subseteq
                {<<"registryDelegateHandler", key[1]>>}
      /\ \A t \in Running :
           (t.kind = "registryDelegateHandler" /\ t.node = n) =>
              t.key = t.msg.cmd /\ t.key \in RegistryCommands

C18_Witness ==
  /\ OneSuccessfulConnect("A")
  /\ \E t \in Running :
       t.kind = "registryDelegateHandler" /\ t.node = "A" /\ t.key = "INFO"

\* C19: a Request() whose call context cannot be serialized panics: in that
\* step the pending table and the messages in flight do not change, and ever
\* after the call has no pending entry, its result channel no value, and no
\* REQ with its parameters is in flight or handled.
C19_SerializeFailsLoudly ==
  /\ [](/\ \A ch \in DOMAIN calls :
             ~Encodable(calls[ch].params) =>
                /\ calls[ch].pc = "panicked"
                /\ ~InTable(ch)
                /\ NumSends(ch) = 0
        /\ \A x \in BagToSet(net) :
             x.msg.cmd = "REQ" => Encodable(x.msg.params)
        /\ \A t \in Running :
             t.kind = "req" => Encodable(t.msg.params))
  /\ [][\A ch \in DOMAIN calls' \ DOMAIN calls :
          ~Encodable(calls'[ch].params) =>
             /\ pendingRequests' = pendingRequests
             /\ net' = net
       ]_vars

C19_Witness ==
  \E ch \in DOMAIN calls :
    /\ ~Encodable(calls[ch].params)
    /\ calls[ch].pc = "panicked"
    /\ \E id \in CallID : pendingRequests[ch[1]][id] # NoEntry

\* ------------------------------------------------------------------ payload view
\* JSONPayload (package serializer): a read-only view of a gjson.Result.
MaxPathLen == 2   \* keys in a path given to Get

Keys == {"a", "b"}

NoMembers == [k \in {} |-> Missing]

\* The scalar documents: null, true, the number 7 and the string "1".
Leaves ==
  { Result("Null", "null", "", 0, NoMembers),
    Result("True", "true", "", 0, NoMembers),
    Result("Number", "7", "", 7, NoMembers),
    Result("String", "\"1\"", "1", 0, NoMembers) }

\* The objects whose members, under some of the keys, are taken from vals.
Objects(vals) ==
  { Result("JSON", "{..}", "", 0, m) :
      m \in UNION {[D -> vals] : D \in SUBSET Keys} }

\* The documents: scalars, and objects nested twice.
Documents == Leaves \cup Objects(Leaves \cup Objects(Leaves))

Paths == UNION {[1 .. len -> Keys] : len \in 1 .. MaxPathLen}

\* gjson: Result.Get(path), path a sequence of keys.
RECURSIVE ResultGet(_, _)
ResultGet(result, keys) ==
  IF keys = << >> THEN result
  ELSE IF result.type = "JSON" /\ Head(keys) \in DOMAIN result.members
       THEN ResultGet(result.members[Head(keys)], Tail(keys))
       ELSE Missing

\* gjson: Result.Exists()
ResultExists(result) == result.type # "Null" \/ result.raw # ""

\* strconv on the strings of the documents.
ParseInt(str) == IF str = "1" THEN 1 ELSE 0

ParseBool(str) == str = "1"

\* gjson: Result.Int(), Result.Uint(), Result.Float()
ResultNumber(result) ==
  CASE result.type = "True" -> 1
    [] result.type = "String" -> ParseInt(result.str)
    [] result.type = "Number" -> result.num
    [] OTHER -> 0

\* gjson: Result.Bool()
ResultBool(result) ==
  CASE result.type = "True" -> TRUE
    [] result.type = "String" -> ParseBool(result.str)
    [] result.type = "Number" -> result.num # 0
    [] OTHER -> FALSE

\* gjson: Result.String()
ResultString(result) ==
  CASE result.type = "False" -> "false"
    [] result.type = "True" -> "true"
    [] result.type = "Number" -> result.raw
    [] result.type = "String" -> result.str
    [] result.type = "JSON" -> result.raw
    [] OTHER -> ""

\* A Get that answers a lookup that found nothing with the view it was asked on.
GetOrSelf(p, keys) ==
  IF ResultExists(ResultGet(p.result, keys))
  THEN JSONPayload(ResultGet(p.result, keys)) ELSE p

\* func (payload JSONPayload) Get(path string) moleculer.Payload
Get(p, keys) == JSONPayload(ResultGet(p.result, keys))

Exists(p) == ResultExists(p.result)

\* Int(): int(payload.result.Int())
IntValue(p) == ResultNumber(p.result)

Int64(p) == ResultNumber(p.result)

Uint(p) == ResultNumber(p.result)

Float(p) == ResultNumber(p.result)

Bool(p) == ResultBool(p.result)

String(p) == ResultString(p.result)

JsonInit ==
  /\ EngineInit
  /\ payload \in {JSONPayload(d) : d \in Documents}
  /\ path \in Paths
  /\ view = << >>
  /\ BrokerInit

\* view := payload.Get(path)
GetPath ==
  /\ view = << >>
  /\ view' = <<Get(payload, path)>>
  /\ UNCHANGED <<isConnected, transport, transports, pendingRequests, calls,
                 connects, net, threads, panicked, nconn, ndisc, ninject,
                 payload, path>>
  /\ UNCHANGED brokerVars

\* view := view.Get(key): a lookup on the view an earlier Get returned
GetAgain(key) ==
  /\ Len(view) = 1
  /\ Len(path) < MaxPathLen
  /\ view' = <<Get(view[1], <<key>>)>>
  /\ path' = Append(path, key)
  /\ UNCHANGED <<isConnected, transport, transports, pendingRequests, calls,
                 connects, net, threads, panicked, nconn, ndisc, ninject,
                 payload>>
  /\ UNCHANGED brokerVars

JsonNext ==
  \/ GetPath
  \/ \E key \in Keys : GetAgain(key)

JsonSpec == JsonInit /\ [][JsonNext]_vars

\* The keys of the path name a member of document doc, level by level.
RECURSIVE Present(_, _)
Present(doc, keys) ==
  \/ keys = << >>
  \/ /\ doc.type = "JSON"
     /\ Head(keys) \in DOMAIN doc.members
     /\ Present(doc.members[Head(keys)], Tail(keys))

\* C20: the view Get returns for a path exists exactly when the path is
\* present in the payload, and the scalar accessors of a view of an absent
\* path return the zero value of their type.
C20_MissingPathIsZero ==
  \A i \in DOMAIN view :
    /\ Exists(view[i]) <=> Present(payload.result, path)
    /\ ~Present(payload.result, path) =>
         /\ String(view[i]) = ""
         /\ IntValue(view[i]) = 0
         /\ Int64(view[i]) = 0
         /\ Uint(view[i]) = 0
         /\ Float(view[i]) = 0
         /\ Bool(view[i]) = FALSE

\* A lookup through a scalar member: {"a": 7} asked for a.b.
C20_Witness ==
  /\ view # << >>
  /\ path = <<"a", "b">>
  /\ "a" \in DOMAIN payload.result.members
  /\ payload.result.members["a"].type = "Number"
  /\ ~Exists(view[1])

\* ------------------------------------------------------------------ pending entries
\* A handler of node n that acts for key takes a step: the RES handler of a
\* RES with that correlation ID, or the $node.disconnected handler for that
\* node.
HandlerSteps(n, kind, key) ==
  \E t \in Running : t.node = n /\ t.kind = kind /\ t.key = key /\ Steps(t)

\* C21: an entry enters the table only in the Request() step that makes its
\* call, and it leaves the table (it never changes otherwise) only in a step
\* of the handler of a RES with its correlation ID or of the handler of
\* $node.disconnected for its target node.
C21_EntryFrame ==
  [][\A n \in Node : \A id \in CallID :
       pendingRequests'[n][id] # pendingRequests[n][id] =>
         IF pendingRequests[n][id] = NoEntry
         THEN \E ch \in DOMAIN calls' \ DOMAIN calls :
                /\ ch[1] = n /\ ch[2] = id
                /\ pendingRequests'[n][id] =
                     [target |-> calls'[ch].target, chan |-> ch]
         ELSE /\ pendingRequests'[n][id] = NoEntry
              /\ \/ HandlerSteps(n, "res", id)
                 \/ HandlerSteps(n, "disc", pendingRequests[n][id].target)
    ]_vars

\* The copies in flight that belong to a call of node n with context id id:
\* its REQ, and the RES a REQ handler published for it.
InFlight(n, id) ==
  {x \in BagToSet(net) :
     /\ x.msg.id = id
     /\ \/ x.msg.cmd = "REQ" /\ x.msg.sender = n
        \/ x.msg.cmd = "RES" /\ x.msg.target = n /\ x.msg.sender \in Node}

\* The handlers of RES messages that a REQ handler published.
Responses == {t \in Running : t.kind = "res" /\ t.msg.sender \in Node}

\* A handler of node n other than t has deleted the key id from the table:
\* a RES handler of that correlation ID, or the $node.disconnected handler
\* that looked the key up.
RemovedBy(n, id, t) ==
  \E t2 \in Running \ {t} :
    /\ t2.node = n /\ t2.key = id
    /\ \/ t2.kind = "res" /\ t2.pc \in {"go_send", "done", "panicked"}
       \/ t2.kind = "disc" /\ t2.pc = "done"

\* C22 as stated: while a REQ of a call or the RES to it is in flight the
\* table of the issuing node holds the call's entry, and the handler of a RES
\* to a call finds the entry.
C22_EntryWhileInFlight ==
  /\ \A n \in Node : \A id \in CallID :
       InFlight(n, id) # {} => pendingRequests[n][id] # NoEntry
  /\ \A t \in Responses : t.entry # NoEntry

\* C22, amended: the entry is registered before the REQ is published.  While a
\* REQ of a call or the RES to it is in flight, the table of the issuing node
\* holds an entry for the correlation ID unless a RES handler or a
\* $node.disconnected handler has deleted it; and the handler of a RES to a
\* call finds the entry unless another handler deleted it first.
C22_RegisteredBeforePublish ==
  /\ \A n \in Node : \A id \in CallID :
       InFlight(n, id) # {} =>
          \/ pendingRequests[n][id] # NoEntry
          \/ RemovedBy(n, id, NoMessage)
  /\ \A t \in Responses :
       \/ t.entry # NoEntry
       \/ RemovedBy(t.node, t.key, t)

\* The target answered and its RES met the entry of the call: the entry was
\* there when the RES handler looked it up, nothing having touched it before.
C22_Witness ==
  \E t \in Responses :
    /\ t.entry # NoEntry
    /\ t.entry.chan \in DOMAIN calls
    /\ calls[t.entry.chan].target = t.msg.sender
    /\ ~RemovedBy(t.node, t.key, t)

\* A $node.disconnected handler raised for a node that no pending request
\* waits for: no entry has it as target and none is stored under its name.
Idle(t) == t.kind = "disc" /\ t.due = {} /\ t.entry = NoEntry

\* C23: the handler of $node.disconnected for a node without pending request
\* neither fails nor blocks, and none of its steps sends on a result channel
\* or changes the pending table.
C23_IdleDisconnectIsNoOp ==
  /\ [](\A t \in Running : Idle(t) => t.pc \notin {"panicked", "disc_wait"})
  /\ [][\A t \in Running :
          (Idle(t) /\ Steps(t)) =>
             /\ panicked' = panicked
             /\ calls' = calls
             /\ pendingRequests' = pendingRequests
       ]_vars

\* ------------------------------------------------------------------ broker
\* The service broker (package broker): Start, Stop, AddService, Call, Emit
\* and Broadcast, with the wait of startService for a service's dependencies.
MaxOps == 4      \* invocations of the broker's operations in one run
MaxClock == 3    \* the clock reads 0 .. MaxClock

\* defaultConfig.WaitForDependenciesTimeout, in seconds
WaitForDependenciesTimeout == 2

transitVars == <<isConnected, transport, transports, pendingRequests, calls,
                 connects, net, threads, panicked, nconn, ndisc, ninject>>

\* A service as the broker uses it: Name() and Dependencies().
Service(name, dependencies) == [name |-> name, dependencies |-> dependencies]

\* The schemas given to AddService: one service waits for a service of
\* another node, one for a local service, one for nothing.
Schemas == {Service("users", {"mail"}), Service("posts", {"math"}),
            Service("math", {})}

\* The services of other nodes, which discovery makes known to the registry.
RemoteServices == {"mail"}

\* One invocation of an operation of the broker: where it is (pc), the
\* services it still has to start, and the start of its current wait.
Op(kind, pc, todo, start) ==
  [kind |-> kind, pc |-> pc, todo |-> todo, start |-> start]

\* One call into a middleware handler, a service or the registry.
Entry(name, arg) == <<name, arg>>

\* broker.IsStarted()
IsStarted == started

\* registry.KnowService(dependency)
KnowService(dependency) == dependency \in known

\* waitForDependencies, one pass of its loop for a service with dependencies,
\* elapsed after its start: TRUE when the loop breaks, FALSE when it sleeps.
LoopBreaks(svc, elapsed) ==
  \/ \A dependency \in svc.dependencies : KnowService(dependency)
  \/ elapsed > WaitForDependenciesTimeout
  \/ ~started

\* waitForDependencies up to its first sleep: TRUE when it returns at once.
waitForDependencies(svc) ==
  \/ Cardinality(svc.dependencies) = 0
  \/ LoopBreaks(svc, 0)

\* startService after the wait: svc.Start(), registry.AddLocalService(svc)
\* and the serviceStarted handlers.
startService(svc) ==
  <<Entry("svc.Start", svc.name), Entry("AddLocalService", svc.name),
    Entry("serviceStarted", svc.name)>>

\* stopService
stopService(svc) ==
  <<Entry("serviceStoping", svc.name), Entry("svc.Stop", svc.name),
    Entry("serviceStoped", svc.name)>>

RECURSIVE StopAll(_)
\* for _, service := range broker.services { broker.stopService(service) }
StopAll(list) ==
  IF list = << >> THEN << >>
  ELSE stopService(Head(list)) \o StopAll(Tail(list))

\* Invocation i starts the head of its list (the wait is over) and goes on
\* to the next service; Start(), after its last service, sets started and
\* runs the deferred brokerStarted handlers.
Proceed(i, entries) ==
  LET svc == Head(ops[i].todo)
      rest == Tail(ops[i].todo)
  IN /\ known' = known \cup {svc.name}
     /\ IF rest = << >> /\ ops[i].kind = "Start"
        THEN /\ started' = TRUE
             /\ log' = log \o entries \o startService(svc)
                           \o <<Entry("brokerStarted", "")>>
        ELSE /\ log' = log \o entries \o startService(svc)
             /\ UNCHANGED started
     /\ ops' = [ops EXCEPT ![i] =
           Op(@.kind, IF rest = << >> THEN "done" ELSE "startService", rest, 0)]

\* A Start() without the IsStarted() check.
BrokerStartUnchecked ==
  /\ Len(ops) < MaxOps
  /\ IF services = << >>
     THEN /\ ops' = Append(ops, Op("Start", "done", << >>, 0))
          /\ started' = TRUE
          /\ log' = log \o <<Entry("brokerStarting", ""),
                             Entry("registry.Start", ""),
                             Entry("brokerStarted", "")>>
     ELSE /\ ops' = Append(ops, Op("Start", "startService", services, 0))
          /\ log' = log \o <<Entry("brokerStarting", ""),
                             Entry("registry.Start", "")>>
          /\ UNCHANGED started
  /\ UNCHANGED <<services, known, clock>>
  /\ UNCHANGED transitVars
  /\ UNCHANGED jsonVars

\* Start(), up to its loop over broker.services (all of it when there is no
\* service): a started broker returns at once.
BrokerStart ==
  /\ Len(ops) < MaxOps
  /\ IF IsStarted
     THEN /\ ops' = Append(ops, Op("Start", "ignored", << >>, 0))
          /\ UNCHANGED <<started, log>>
     ELSE IF services = << >>
     THEN /\ ops' = Append(ops, Op("Start", "done", << >>, 0))
          /\ started' = TRUE
          /\ log' = log \o <<Entry("brokerStarting", ""),
                             Entry("registry.Start", ""),
                             Entry("brokerStarted", "")>>
     ELSE /\ ops' = Append(ops, Op("Start", "startService", services, 0))
          /\ log' = log \o <<Entry("brokerStarting", ""),
                             Entry("registry.Start", "")>>
          /\ UNCHANGED started
  /\ UNCHANGED <<services, known, clock>>
  /\ UNCHANGED transitVars
  /\ UNCHANGED jsonVars

\* startService for the next service of invocation i: the serviceStarting
\* handlers, then waitForDependencies; it goes on at once or sleeps.
StartService(i) ==
  /\ ops[i].pc = "startService"
  /\ IF waitForDependencies(Head(ops[i].todo))
     THEN Proceed(i, <<Entry("serviceStarting", Head(ops[i].todo).name)>>)
     ELSE /\ ops' = [ops EXCEPT ![i].pc = "wait", ![i].start = clock]
          /\ log' = log \o <<Entry("serviceStarting", Head(ops[i].todo).name)>>
          /\ UNCHANGED <<started, known>>
  /\ UNCHANGED <<services, clock>>
  /\ UNCHANGED transitVars
  /\ UNCHANGED jsonVars

\* A pass of the loop of waitForDependencies after a sleep of 100 ms: a pass
\* that sleeps again changes nothing.
WaitCheck(i) ==
  /\ ops[i].pc = "wait"
  /\ IF LoopBreaks(Head(ops[i].todo), clock - ops[i].start)
     THEN Proceed(i, << >>)
     ELSE UNCHANGED <<started, known, log, ops>>
  /\ UNCHANGED <<services, clock>>
  /\ UNCHANGED transitVars
  /\ UNCHANGED jsonVars

\* AddService(schema): a started broker starts the service at once.
AddService(schema) ==
  /\ Len(ops) < MaxOps
  /\ services' = Append(services, schema)
  /\ ops' = Append(ops, IF started
                        THEN Op("AddService", "startService", <<schema>>, 0)
                        ELSE Op("AddService", "done", << >>, 0))
  /\ UNCHANGED <<started, known, log, clock>>
  /\ UNCHANGED transitVars
  /\ UNCHANGED jsonVars

\* Stop()
BrokerStop ==
  /\ Len(ops) < MaxOps
  /\ ops' = Append(ops, Op("Stop", "done", << >>, 0))
  /\ log' = log \o <<Entry("brokerStoping", "")>> \o StopAll(services)
                \o <<Entry("registry.Stop", ""), Entry("brokerStoped", "")>>
  /\ started' = FALSE
  /\ UNCHANGED <<services, known, clock>>
  /\ UNCHANGED transitVars
  /\ UNCHANGED jsonVars

\* Call, Emit and Broadcast: panic unless the broker is started, otherwise
\* hand the context to the registry (dispatch names the registry's method).
Dispatch(kind, dispatch) ==
  /\ Len(ops) < MaxOps
  /\ IF ~IsStarted
     THEN /\ ops' = Append(ops, Op(kind, "panicked", << >>, 0))
          /\ UNCHANGED log
     ELSE /\ ops' = Append(ops, Op(kind, "done", << >>, 0))
          /\ log' = Append(log, Entry(dispatch, ""))
  /\ UNCHANGED <<started, services, known, clock>>
  /\ UNCHANGED transitVars
  /\ UNCHANGED jsonVars

BrokerCall == Dispatch("Call", "LoadBalanceCall")

Emit == Dispatch("Emit", "LoadBalanceEvent")

BrokerBroadcast == Dispatch("Broadcast", "BroadcastEvent")

\* The registry learns of a service of another node.
Discovered(name) ==
  /\ name \notin known
  /\ known' = known \cup {name}
  /\ UNCHANGED <<started, services, log, ops, clock>>
  /\ UNCHANGED transitVars
  /\ UNCHANGED jsonVars

\* A second passes.
Tick ==
  /\ clock < MaxClock
  /\ clock' = clock + 1
  /\ UNCHANGED <<started, services, known, log, ops>>
  /\ UNCHANGED transitVars
  /\ UNCHANGED jsonVars

BrokerNext ==
  \/ BrokerStart
  \/ \E i \in DOMAIN ops : StartService(i)
  \/ \E i \in DOMAIN ops : WaitCheck(i)
  \/ \E schema \in Schemas : AddService(schema)
  \/ BrokerStop
  \/ BrokerCall
  \/ Emit
  \/ BrokerBroadcast
  \/ \E name \in RemoteServices : Discovered(name)
  \/ Tick

BrokerSpec == Init /\ [][BrokerNext]_vars

\* The calls into the registry that dispatch an action or an event.
Dispatches(entries) ==
  Cardinality({j \in DOMAIN entries :
                 entries[j][1] \in {"LoadBalanceCall", "LoadBalanceEvent",
                                    "BroadcastEvent"}})

\* The operations invoked in this step.
Invoked == (DOMAIN ops') \ (DOMAIN ops)

\* C24: a Call, Emit or Broadcast invoked while the broker is not started
\* fails and dispatches nothing to the registry; a Start() invoked on a
\* started broker changes nothing and calls no handler, service or registry.
C24_LifecycleGuards ==
  [][\A i \in Invoked :
       /\ (ops'[i].kind \in {"Call", "Emit", "Broadcast"} /\ ~started) =>
             /\ ops'[i].pc = "panicked"
             /\ Dispatches(log') = Dispatches(log)
       /\ (ops'[i].kind = "Start" /\ started) =>
             /\ ops'[i].pc = "ignored"
             /\ <<started, services, known, log>>' =
                  <<started, services, known, log>>
    ]_vars

\* A run with a second Start() on the started broker and, after a Stop(), a
\* call that failed; the services were started once.
C24_Witness ==
  \E i, j, k \in DOMAIN ops :
    /\ i < j /\ j < k
    /\ ops[i].kind = "Start" /\ ops[i].pc = "ignored"
    /\ ops[j].kind = "Stop"
    /\ ops[k].kind \in {"Call", "Emit", "Broadcast"} /\ ops[k].pc = "panicked"
    /\ Dispatches(log) = 0

\* Invocation i starts a service in this step.
StartsService(i) ==
  /\ ops[i].pc \in {"startService", "wait"}
  /\ Len(ops'[i].todo) < Len(ops[i].todo)

\* The time invocation i has waited for the dependencies of its service.
Waited(i) == IF ops[i].pc = "wait" THEN clock - ops[i].start ELSE 0

\* C25: a service with dependencies is started, and added to the registry,
\* only when every dependency is known to the registry or the wait has lasted
\* longer than WaitForDependenciesTimeout; and a wait that has lasted longer
\* than the timeout ends at its next pass.
C25_WaitsForDependencies ==
  /\ [][\A i \in DOMAIN ops :
          (StartsService(i) /\ Head(ops[i].todo).dependencies # {}) =>
             \/ \A d \in Head(ops[i].todo).dependencies : d \in known
             \/ Waited(i) > WaitForDependenciesTimeout
       ]_vars
  /\ [](\A i \in DOMAIN ops :
          (ops[i].pc = "wait" /\ Waited(i) > WaitForDependenciesTimeout) =>
             LoopBreaks(Head(ops[i].todo), Waited(i)))

====
